---------------------------- MODULE Spec2Model ----------------------------
(***************************************************************************)
(* The Logfather: directory scanner, line parser, in-memory search engine  *)
(* and the API router that rebuilds and queries the index.                 *)
(*                                                                         *)
(* JavaScript strings are sequences of one-character strings; a value that *)
(* may be null (or NaN) is None or Some(x); a Date is Some(t) for its      *)
(* getTime() value t and None when it is an Invalid Date.                  *)
(* Each action is one run-to-completion segment of a handler:              *)
(* the code between two awaits on file-system I/O.                         *)
(***************************************************************************)
EXTENDS Integers, Sequences, FiniteSets, TLC

None == <<>>
Some(x) == <<x>>

(***************************************************************************)
(* Characters and the String methods the code uses.                        *)
(***************************************************************************)
LowerLetters == <<"a","b","c","d","e","f","g","h","i","j","k","l","m",
                  "n","o","p","q","r","s","t","u","v","w","x","y","z">>
UpperLetters == <<"A","B","C","D","E","F","G","H","I","J","K","L","M",
                  "N","O","P","Q","R","S","T","U","V","W","X","Y","Z">>
DigitChars == <<"0","1","2","3","4","5","6","7","8","9">>

Range(s) == {s[i] : i \in 1..Len(s)}

DigitSet == Range(DigitChars)
LowerSet == Range(LowerLetters)
UpperSet == Range(UpperLetters)

IsDigit(c) == c \in DigitSet

\* \w of a JavaScript regular expression: [A-Za-z0-9_]
WordChars == LowerSet \cup UpperSet \cup DigitSet \cup {"_"}
IsWordChar(c) == c \in WordChars

\* the white space String.prototype.trim removes
IsSpace(c) == c \in {" ", "\t", "\n", "\r"}

LowerOf == [c \in UpperSet |-> LowerLetters[CHOOSE i \in 1..26 : UpperLetters[i] = c]]

ToLowerChar(c) == IF c \in UpperSet THEN LowerOf[c] ELSE c

\* String.prototype.toLowerCase
ToLowerCase(s) == [i \in 1..Len(s) |-> ToLowerChar(s[i])]

\* String.prototype.startsWith
StartsWith(s, t) == Len(t) <= Len(s) /\ SubSeq(s, 1, Len(t)) = t

\* String.prototype.includes
Includes(s, t) == \E i \in 1..(Len(s) - Len(t) + 1) : SubSeq(s, i, i + Len(t) - 1) = t

\* String.prototype.trim
Trim(s) ==
    LET inked == {i \in 1..Len(s) : ~IsSpace(s[i])}
    IN  IF inked = {} THEN <<>>
        ELSE SubSeq(s, CHOOSE i \in inked : \A o \in inked : i <= o,
                       CHOOSE i \in inked : \A o \in inked : i >= o)

\* the k-th smallest element of a set of numbers
Nth(set, k) == CHOOSE i \in set : Cardinality({j \in set : j < i}) = k - 1

\* String.prototype.split(c) for a one-character separator c
SplitChar(s, c) ==
    LET seps == {i \in 1..Len(s) : s[i] = c}
        n == Cardinality(seps)
        From(k) == IF k = 1 THEN 1 ELSE Nth(seps, k - 1) + 1
        To(k) == IF k = n + 1 THEN Len(s) ELSE Nth(seps, k) - 1
    IN  [k \in 1..(n + 1) |-> SubSeq(s, From(k), To(k))]

\* String.prototype.split(/\W+/): the pieces between maximal runs of non-word
\* characters; a run at either end leaves an empty piece there
SplitNonWord(s) ==
    LET runStarts == {i \in 1..Len(s) :
                        ~IsWordChar(s[i]) /\ (i = 1 \/ IsWordChar(s[i - 1]))}
        runEnds == {i \in 1..Len(s) :
                        ~IsWordChar(s[i]) /\ (i = Len(s) \/ IsWordChar(s[i + 1]))}
        n == Cardinality(runStarts)
        From(k) == IF k = 1 THEN 1 ELSE Nth(runEnds, k - 1) + 1
        To(k) == IF k = n + 1 THEN Len(s) ELSE Nth(runStarts, k) - 1
    IN  [k \in 1..(n + 1) |-> SubSeq(s, From(k), To(k))]

\* Array.prototype.join(' ')
RECURSIVE JoinSpace(_)
JoinSpace(parts) ==
    IF parts = <<>> THEN <<>>
    ELSE IF Len(parts) = 1 THEN parts[1]
    ELSE parts[1] \o <<" ">> \o JoinSpace(Tail(parts))

\* The collation rank of a character for String.prototype.localeCompare:
\* punctuation before digits before letters, a letter's two cases together.
LetterRank ==
    [c \in LowerSet \cup UpperSet |->
        IF c \in LowerSet THEN 100 + 2 * (CHOOSE i \in 1..26 : LowerLetters[i] = c)
        ELSE 101 + 2 * (CHOOSE i \in 1..26 : UpperLetters[i] = c)]
DigitRank == [c \in DigitSet |-> 50 + (CHOOSE i \in 1..10 : DigitChars[i] = c)]

CharRank(c) ==
    IF c \in LowerSet \cup UpperSet THEN LetterRank[c]
    ELSE IF IsDigit(c) THEN DigitRank[c]
    ELSE 1

\* String.prototype.localeCompare: negative, zero or positive
RECURSIVE LocaleCompare(_, _)
LocaleCompare(s, t) ==
    IF s = <<>> /\ t = <<>> THEN 0
    ELSE IF s = <<>> THEN -1
    ELSE IF t = <<>> THEN 1
    ELSE IF CharRank(Head(s)) < CharRank(Head(t)) THEN -1
    ELSE IF CharRank(Head(s)) > CharRank(Head(t)) THEN 1
    ELSE LocaleCompare(Tail(s), Tail(t))

(***************************************************************************)
(* JavaScript values of a parsed JSON record.                              *)
(***************************************************************************)
ESC == "ESC"    \* the character \u001b

JStr(s) == [t |-> "string", v |-> s]
JNum(n) == [t |-> "number", v |-> <<n>>]
JUndef == [t |-> "undefined", v |-> <<>>]

\* the truthiness of a value, as "!x" tests it
Truthy(x) ==
    CASE x.t = "string" -> x.v # <<>>
      [] x.t = "number" -> x.v[1] # 0
      [] OTHER -> FALSE

(***************************************************************************)
(* Log lines of the model and what the JavaScript library makes of them:   *)
(* JSON.parse of a line and Date parsing of a string.                      *)
(***************************************************************************)
LineAb == <<"a","b">>
LineCab == <<"c","a","b">>
LineX == <<"x">>
LineBlank == <<" ">>
\* {"level":"warn","message":"ab","timestamp":5}
LineJsonWarn ==
    <<"{","\"","l","e","v","e","l","\"",":","\"","w","a","r","n","\"",",",
      "\"","m","e","s","s","a","g","e","\"",":","\"","a","b","\"",",",
      "\"","t","i","m","e","s","t","a","m","p","\"",":","5","}">>
\* {"level":"ERR","message":"cab","timestamp":7}
LineJsonErr ==
    <<"{","\"","l","e","v","e","l","\"",":","\"","E","R","R","\"",",",
      "\"","m","e","s","s","a","g","e","\"",":","\"","c","a","b","\"",",",
      "\"","t","i","m","e","s","t","a","m","p","\"",":","7","}">>
\* {"message":"ab"}
LineJsonNoLevel ==
    <<"{","\"","m","e","s","s","a","g","e","\"",":","\"","a","b","\"","}">>

LineInfo == <<"i","n","f","o">>
\* {"level":"info","message":"ab","timestamp":0}
LineJsonZero ==
    <<"{","\"","l","e","v","e","l","\"",":","\"","i","n","f","o","\"",",",
      "\"","m","e","s","s","a","g","e","\"",":","\"","a","b","\"",",","\"",
      "t","i","m","e","s","t","a","m","p","\"",":","0","}">>
\* {"level":3,"message":"ab","timestamp":5}
LineJsonNumLevel ==
    <<"{","\"","l","e","v","e","l","\"",":","3",",","\"","m","e","s","s","a",
      "g","e","\"",":","\"","a","b","\"",",","\"","t","i","m","e","s","t","a",
      "m","p","\"",":","5","}">>
\* {"level":"info","message":" \u001b[31mab ","timestamp":5}
LineJsonAnsi ==
    <<"{","\"","l","e","v","e","l","\"",":","\"","i","n","f","o","\"",",",
      "\"","m","e","s","s","a","g","e","\"",":","\""," ","\\","u","0","0","1",
      "b","[","3","1","m","a","b"," ","\"",",","\"","t","i","m","e","s","t",
      "a","m","p","\"",":","5","}">>
\* {"level":"info","message":"ab","timestamp":2000}
LineJsonFar ==
    <<"{","\"","l","e","v","e","l","\"",":","\"","i","n","f","o","\"",",",
      "\"","m","e","s","s","a","g","e","\"",":","\"","a","b","\"",",","\"",
      "t","i","m","e","s","t","a","m","p","\"",":","2","0","0","0","}">>
\* null
LineJsonNull == <<"n","u","l","l">>

\* JSON.parse(line): the record of an object, "other" for any other JSON
\* value, "SyntaxError" when the line is not JSON
JSONParse(line) ==
    CASE line = LineJsonWarn ->
           [t |-> "object", level |-> JStr(<<"w","a","r","n">>),
            message |-> JStr(<<"a","b">>), timestamp |-> JNum(5)]
      [] line = LineJsonErr ->
           [t |-> "object", level |-> JStr(<<"E","R","R">>),
            message |-> JStr(<<"c","a","b">>), timestamp |-> JNum(7)]
      [] line = LineJsonNoLevel ->
           [t |-> "object", level |-> JUndef,
            message |-> JStr(<<"a","b">>), timestamp |-> JUndef]
      [] line = LineJsonZero ->
           [t |-> "object", level |-> JStr(<<"i","n","f","o">>),
            message |-> JStr(<<"a","b">>), timestamp |-> JNum(0)]
      [] line = LineJsonNumLevel ->
           [t |-> "object", level |-> JNum(3),
            message |-> JStr(<<"a","b">>), timestamp |-> JNum(5)]
      [] line = LineJsonAnsi ->
           [t |-> "object", level |-> JStr(<<"i","n","f","o">>),
            message |-> JStr(<<" ",ESC,"[","3","1","m","a","b"," ">>),
            timestamp |-> JNum(5)]
      [] line = LineJsonFar ->
           [t |-> "object", level |-> JStr(<<"i","n","f","o">>),
            message |-> JStr(<<"a","b">>), timestamp |-> JNum(2000)]
      [] line = LineJsonNull -> [t |-> "other"]
      [] OTHER -> [t |-> "SyntaxError"]

\* new Date(string).getTime(), None for NaN: no string of the model's lines
\* is a date
DateParse(s) == None

(***************************************************************************)
(* Log parser (lib/logParser.js).                                          *)
(***************************************************************************)
\* generateEntryId: the part of the path after the last '/', or the path,
\* then ':' and the line number
Last(seq) == seq[Len(seq)]

RECURSIVE DigitsOf(_)
DigitsOf(n) == IF n < 10 THEN <<DigitChars[n + 1]>>
               ELSE Append(DigitsOf(n \div 10), DigitChars[(n % 10) + 1])

generateEntryId(filePath, lineNumber) ==
    LET popped == Last(SplitChar(filePath, "/"))
        filename == IF popped # <<>> THEN popped ELSE filePath
    IN  filename \o <<":">> \o DigitsOf(lineNumber)

\* normalizeLogLevel for a string level
normalizeLogLevel(level) ==
    IF level = <<>> THEN <<"u","n","k","n","o","w","n">>
    ELSE LET normalized == Trim(ToLowerCase(level))
         IN  CASE normalized = <<"e","r","r">> -> <<"e","r","r","o","r">>
               [] normalized = <<"w","a","r","n">> -> <<"w","a","r","n","i","n","g">>
               [] normalized = <<"t","r","a","c","e">> -> <<"d","e","b","u","g">>
               [] normalized = <<"f","a","t","a","l">> -> <<"e","r","r","o","r">>
               [] OTHER -> normalized

\* message.replace(/\u001b\[\d+m/g, '')
RECURSIVE SkipDigits(_)
SkipDigits(s) == IF s # <<>> /\ IsDigit(Head(s)) THEN SkipDigits(Tail(s)) ELSE s

RECURSIVE StripAnsi(_)
StripAnsi(s) ==
    IF s = <<>> THEN <<>>
    ELSE LET rest == IF Len(s) >= 3 /\ s[1] = ESC /\ s[2] = "[" /\ IsDigit(s[3])
                     THEN SkipDigits(SubSeq(s, 3, Len(s)))
                     ELSE <<>>
         IN  IF rest # <<>> /\ Head(rest) = "m"
             THEN StripAnsi(Tail(rest))
             ELSE <<Head(s)>> \o StripAnsi(Tail(s))

cleanMessage(message) ==
    IF message = <<>> THEN <<>> ELSE Trim(StripAnsi(message))

\* The largest time value a Date can hold (8.64e15 ms in JavaScript), on the
\* scale of the model's clock
MaxDateValue == 1000

\* new Date(n) for an integer n: an Invalid Date beyond the range
NewDate(n) == IF -MaxDateValue <= n /\ n <= MaxDateValue THEN Some(n) ELSE None

\* parseTimestamp.  A number: new Date(n), and when that is invalid,
\* parseInt(n) = n is not NaN and new Date(n * 1000) is returned as it is.
\* A string: Date parsing, then parseInt (NaN for the model's strings), then
\* the clock.
parseTimestamp(timestamp, now) ==
    CASE ~Truthy(timestamp) -> Some(now)
      [] timestamp.t = "number" ->
           IF NewDate(timestamp.v[1]) # None THEN NewDate(timestamp.v[1])
           ELSE NewDate(timestamp.v[1] * 1000)
      [] OTHER -> IF DateParse(timestamp.v) # None THEN DateParse(timestamp.v) ELSE Some(now)

inferLogLevel(line, filePath) ==
    LET lowerLine == ToLowerCase(line)
    IN  CASE Includes(filePath, <<"e","r","r","o","r">>) -> <<"e","r","r","o","r">>
          [] Includes(filePath, <<"d","e","b","u","g">>) -> <<"d","e","b","u","g">>
          [] Includes(lowerLine, <<"e","r","r">>) -> <<"e","r","r","o","r">>
          [] Includes(lowerLine, <<"w","a","r","n">>) -> <<"w","a","r","n","i","n","g">>
          [] Includes(lowerLine, <<"i","n","f","o">>) -> <<"i","n","f","o">>
          [] Includes(lowerLine, <<"d","e","b","u","g">>) -> <<"d","e","b","u","g">>
          [] OTHER -> <<"u","n","k","n","o","w","n">>

\* A regular-expression template: "d" stands for \d, any other element for itself
IsoTemplate == <<"d","d","d","d","-","d","d","-","d","d","T","d","d",":","d","d",":","d","d">>
DateTemplate == <<"d","d","d","d","-","d","d","-","d","d"," ","d","d",":","d","d",":","d","d">>

MatchAt(s, i, tmpl) ==
    /\ i + Len(tmpl) - 1 <= Len(s)
    /\ \A k \in 1..Len(tmpl) :
          IF tmpl[k] = "d" THEN IsDigit(s[i + k - 1]) ELSE s[i + k - 1] = tmpl[k]

\* the first match of the template in s (<<>> when there is none), with the
\* optional suffixes (?:\.\d{3})? and Z? when withSuffix
FirstMatch(s, tmpl, withSuffix) ==
    LET starts == {i \in 1..Len(s) : MatchAt(s, i, tmpl)}
    IN  IF starts = {} THEN <<>>
        ELSE LET i == CHOOSE m \in starts : \A o \in starts : m <= o
                 e1 == i + Len(tmpl) - 1
                 e2 == IF withSuffix /\ MatchAt(s, e1 + 1, <<".","d","d","d">>)
                       THEN e1 + 4 ELSE e1
                 e3 == IF withSuffix /\ e2 + 1 <= Len(s) /\ s[e2 + 1] = "Z"
                       THEN e2 + 1 ELSE e2
             IN  SubSeq(s, i, e3)

inferTimestamp(line, now) ==
    LET isoMatch == FirstMatch(line, IsoTemplate, TRUE)
        dateMatch == FirstMatch(line, DateTemplate, FALSE)
    IN  IF isoMatch # <<>> /\ DateParse(isoMatch) # None THEN DateParse(isoMatch)
        ELSE IF dateMatch # <<>> /\ DateParse(dateMatch) # None THEN DateParse(dateMatch)
        ELSE Some(now)

createFallbackEntry(line, filePath, lineNumber, now) ==
    [id |-> generateEntryId(filePath, lineNumber),
     level |-> inferLogLevel(line, filePath),
     message |-> Trim(line),
     timestamp |-> inferTimestamp(line, now),
     sourceFile |-> filePath,
     lineNumber |-> lineNumber,
     raw |-> line,
     isStructured |-> FALSE]

\* parseLogLine: a TypeError (a property of null, toLowerCase of a level or
\* replace of a message that is not a string) or a SyntaxError inside the try
\* block ends in the catch block's fallback entry
parseLogLine(line, filePath, lineNumber, now) ==
    LET parsed == JSONParse(line)
    IN  IF parsed.t # "object"
        THEN createFallbackEntry(line, filePath, lineNumber, now)
        ELSE IF ~Truthy(parsed.level) \/ ~Truthy(parsed.message) \/ ~Truthy(parsed.timestamp)
        THEN createFallbackEntry(line, filePath, lineNumber, now)
        ELSE IF parsed.level.t # "string" \/ parsed.message.t # "string"
        THEN createFallbackEntry(line, filePath, lineNumber, now)
        ELSE [id |-> generateEntryId(filePath, lineNumber),
              level |-> normalizeLogLevel(parsed.level.v),
              message |-> cleanMessage(parsed.message.v),
              timestamp |-> parseTimestamp(parsed.timestamp, now),
              sourceFile |-> filePath,
              lineNumber |-> lineNumber,
              raw |-> line,
              isStructured |-> TRUE]

IsNonBlank(line) == Trim(line) # <<>>

\* parseLogContent: the non-blank lines, numbered from 1 among themselves
parseLogContent(fileContent, filePath, now) ==
    IF fileContent = <<>> THEN <<>>
    ELSE LET lines == SelectSeq(SplitChar(fileContent, "\n"), IsNonBlank)
         IN  [i \in 1..Len(lines) |-> parseLogLine(lines[i], filePath, i, now)]

(***************************************************************************)
(* Search engine (lib/searchEngine.js).  An engine is the record of the    *)
(* fields of a LogSearchEngine; indexedTerms, a Map of Sets, is the        *)
(* sequence of its keys in insertion order, each with its positions in     *)
(* insertion order.  "built" records which indexEntries call last wrote    *)
(* each field.                                                             *)
(***************************************************************************)
DefaultPageSize == 100

\* the engine after the constructor
NewEngine ==
    [entries |-> <<>>, indexedTerms |-> <<>>, lastIndexTime |-> None,
     built |-> [entries |-> 0, indexedTerms |-> 0, lastIndexTime |-> 0]]

getSearchableText(entry) ==
    ToLowerCase(JoinSpace(<<entry.message, entry.level, entry.sourceFile, entry.raw>>))

\* A faulty length test: terms of one character are kept
IsTermAny(term) == Len(term) >= 1

IsTerm(term) == Len(term) >= 2

extractTerms(text) ==
    LET kept == SelectSeq(SplitNonWord(text), IsTerm)
    IN  [i \in 1..Len(kept) |-> ToLowerCase(kept[i])]

\* Map.has / Map.get on the sequence of keys
HasTerm(terms, term) == \E k \in 1..Len(terms) : terms[k].term = term
GetTerm(terms, term) == terms[CHOOSE k \in 1..Len(terms) : terms[k].term = term].indices

\* Set.add on a sequence in insertion order
SetAdd(set, x) == IF x \in Range(set) THEN set ELSE Append(set, x)

\* the body of indexEntry's forEach: create the term's set if needed, add the index
AddTerm(terms, term, index) ==
    IF HasTerm(terms, term)
    THEN [k \in 1..Len(terms) |->
            IF terms[k].term = term
            THEN [term |-> term, indices |-> SetAdd(terms[k].indices, index)]
            ELSE terms[k]]
    ELSE Append(terms, [term |-> term, indices |-> <<index>>])

RECURSIVE AddTerms(_, _, _)
AddTerms(terms, list, index) ==
    \* (the test on terms has TLC evaluate the Map before the next step)
    IF list = <<>> \/ Len(terms) < 0 THEN terms
    ELSE AddTerms(AddTerm(terms, Head(list), index), Tail(list), index)

indexEntry(terms, entry, index) ==
    AddTerms(terms, extractTerms(getSearchableText(entry)), index)

\* entries.forEach((entry, index) => this.indexEntry(entry, index)), index from 0
RECURSIVE IndexAll(_, _, _)
IndexAll(terms, entries, done) ==
    IF done = Len(entries) \/ Len(terms) < 0 THEN terms
    ELSE IndexAll(indexEntry(terms, entries[done + 1], done), entries, done + 1)

\* A faulty indexEntries: the entries are replaced, the terms are left as they were
indexEntriesKeepTerms(engine, entries, now, call) ==
    [entries |-> entries,
     indexedTerms |-> engine.indexedTerms,
     lastIndexTime |-> Some(now),
     built |-> [entries |-> call, indexedTerms |-> engine.built.indexedTerms,
                lastIndexTime |-> call]]

\* indexEntries, the call-th call of it, at clock time now
indexEntries(engine, entries, now, call) ==
    [entries |-> entries,
     indexedTerms |-> IndexAll(<<>>, entries, 0),
     lastIndexTime |-> Some(now),
     built |-> [entries |-> call, indexedTerms |-> call, lastIndexTime |-> call]]

\* the indices of the entries matching any query term, in the Set's insertion order
RECURSIVE AddAll(_, _)
AddAll(set, list) ==
    IF list = <<>> THEN set ELSE AddAll(SetAdd(set, Head(list)), Tail(list))

\* A faulty partial-match loop: only the exact matches are found
PartialMatchesNone(set, terms, term, k) == set

\* the partial-match loop of one term over the Map, from key k on
RECURSIVE PartialMatches(_, _, _, _)
PartialMatches(set, terms, term, k) ==
    IF k > Len(terms) THEN set
    ELSE PartialMatches(
           IF Includes(terms[k].term, term) THEN AddAll(set, terms[k].indices) ELSE set,
           terms, term, k + 1)

MatchTerm(set, terms, term) ==
    LET exact == IF HasTerm(terms, term) THEN AddAll(set, GetTerm(terms, term)) ELSE set
    IN  PartialMatches(exact, terms, term, 1)

RECURSIVE MatchTerms(_, _, _)
MatchTerms(set, terms, queryTerms) ==
    IF queryTerms = <<>> THEN set
    ELSE MatchTerms(MatchTerm(set, terms, Head(queryTerms)), terms, Tail(queryTerms))

\* A faulty performTextSearch: a query without terms matches nothing
MatchOrNone(engine, queryTerms) == MatchTerms(<<>>, engine.indexedTerms, queryTerms)

MatchOrAll(engine, queryTerms) ==
    IF Len(queryTerms) = 0
    THEN [i \in 1..Len(engine.entries) |-> i - 1]
    ELSE MatchTerms(<<>>, engine.indexedTerms, queryTerms)

performTextSearch(engine, query) == MatchOrAll(engine, extractTerms(ToLowerCase(query)))

\* An array is the record of its elements and of whether it is the engine's own
\* entries array (own) or a new one.
\* a < b on two Dates: false when either is an Invalid Date
DateBefore(a, b) == a # None /\ b # None /\ a[1] < b[1]

\* the predicate of applyFilters' filter
KeepEntry(entry, filters) ==
    /\ ~(filters.level # None /\ entry.level # filters.level)
    /\ ~(filters.startDate # None /\ DateBefore(entry.timestamp, filters.startDate))
    /\ ~(filters.endDate # None /\ DateBefore(filters.endDate, entry.timestamp))

Filtered(val, filters) ==
    LET Keep(entry) == KeepEntry(entry, filters) IN SelectSeq(val, Keep)

\* A faulty applyFilters: with no filter set, the array it was given is returned
applyFiltersNoCopy(results, filters) ==
    IF filters.level = None /\ filters.startDate = None /\ filters.endDate = None
    THEN results
    ELSE [own |-> FALSE, val |-> Filtered(results.val, filters)]

\* applyFilters: Array.prototype.filter makes a new array
applyFilters(results, filters) == [own |-> FALSE, val |-> Filtered(results.val, filters)]

\* the comparator of sortResults
StringFields == {"id", "level", "message", "sourceFile", "raw"}
NumberFields == {"timestamp", "lineNumber"}

BoolString(b) == IF b THEN <<"t","r","u","e">> ELSE <<"f","a","l","s","e">>

Compare(a, b, sortBy, sortOrder) ==
    LET multiplier == IF sortOrder = "desc" THEN -1 ELSE 1
    IN  CASE sortBy = "timestamp" ->
               \* a NaN from the comparator counts as 0
               IF a.timestamp = None \/ b.timestamp = None THEN 0
               ELSE (a.timestamp[1] - b.timestamp[1]) * multiplier
          [] sortBy = "lineNumber" -> (a.lineNumber - b.lineNumber) * multiplier
          [] sortBy = "id" -> LocaleCompare(a.id, b.id) * multiplier
          [] sortBy = "level" -> LocaleCompare(a.level, b.level) * multiplier
          [] sortBy = "message" -> LocaleCompare(a.message, b.message) * multiplier
          [] sortBy = "sourceFile" -> LocaleCompare(a.sourceFile, b.sourceFile) * multiplier
          [] sortBy = "raw" -> LocaleCompare(a.raw, b.raw) * multiplier
          [] sortBy = "isStructured" ->
               LocaleCompare(BoolString(a.isStructured), BoolString(b.isStructured)) * multiplier
          \* a field the entries do not have: String(undefined) on both sides
          [] OTHER -> LocaleCompare(<<"u","n","d","e","f","i","n","e","d">>,
                                    <<"u","n","d","e","f","i","n","e","d">>) * multiplier

\* the least element of a set of numbers, or other when the set is empty
LeastOr(set, other) == IF set = {} THEN other ELSE CHOOSE p \in set : \A o \in set : p <= o

InsertAt(seq, x, pos) == SubSeq(seq, 1, pos - 1) \o <<x>> \o SubSeq(seq, pos, Len(seq))

\* Array.prototype.sort as Node's engine runs it on an array of fewer than 64
\* elements: the run the array begins with is found (non-descending, or
\* strictly descending and then reversed) and every later element is put in
\* its place by binary insertion. With a comparator that returns NaN (counted
\* as 0) for some pairs the outcome is the one of this procedure.
Reverse(seq) == [i \in 1..Len(seq) |-> seq[Len(seq) + 1 - i]]

\* the length of the run arr begins with, arr[1..idx-1] being part of it
RECURSIVE RunLength(_, _, _, _, _)
RunLength(arr, idx, descending, sortBy, sortOrder) ==
    IF idx > Len(arr) THEN Len(arr)
    ELSE IF descending = (Compare(arr[idx], arr[idx - 1], sortBy, sortOrder) >= 0)
    THEN idx - 1
    ELSE RunLength(arr, idx + 1, descending, sortBy, sortOrder)

\* the place of pivot among arr[left..right-1], by bisection
RECURSIVE BinarySearch(_, _, _, _, _, _)
BinarySearch(arr, pivot, left, right, sortBy, sortOrder) ==
    IF left >= right THEN left
    ELSE LET mid == left + ((right - left) \div 2)
         IN  IF Compare(pivot, arr[mid], sortBy, sortOrder) < 0
             THEN BinarySearch(arr, pivot, left, mid, sortBy, sortOrder)
             ELSE BinarySearch(arr, pivot, mid + 1, right, sortBy, sortOrder)

\* arr[1..start-1] is in order: the elements from start on are inserted
RECURSIVE BinaryInsertionSort(_, _, _, _)
BinaryInsertionSort(arr, start, sortBy, sortOrder) ==
    IF start > Len(arr) THEN arr
    ELSE LET pos == BinarySearch(arr, arr[start], 1, start, sortBy, sortOrder)
         IN  BinaryInsertionSort(
                SubSeq(arr, 1, pos - 1) \o <<arr[start]>> \o SubSeq(arr, pos, start - 1)
                   \o SubSeq(arr, start + 1, Len(arr)),
                start + 1, sortBy, sortOrder)

ArraySort(arr, sortBy, sortOrder) ==
    IF Len(arr) < 2 THEN arr
    ELSE LET descending == Compare(arr[2], arr[1], sortBy, sortOrder) < 0
             run == RunLength(arr, 3, descending, sortBy, sortOrder)
         IN  BinaryInsertionSort(
                IF descending
                THEN Reverse(SubSeq(arr, 1, run)) \o SubSeq(arr, run + 1, Len(arr))
                ELSE arr,
                run + 1, sortBy, sortOrder)

\* sortResults sorts the array it is given in place and returns it
sortResults(results, sortBy, sortOrder) ==
    [own |-> results.own, val |-> ArraySort(results.val, sortBy, sortOrder)]

\* Array.prototype.slice(start, end): a negative index counts from the end
SliceIndex(i, len) == IF i < 0 THEN (IF len + i < 0 THEN 0 ELSE len + i)
                      ELSE IF i > len THEN len ELSE i

Slice(arr, start, end) ==
    SubSeq(arr, SliceIndex(start, Len(arr)) + 1, SliceIndex(end, Len(arr)))

Min(a, b) == IF a < b THEN a ELSE b

\* A faulty page count: the division rounds down
CeilDivFloor(a, b) == a \div b

\* Math.ceil(a / b) for a >= 0, b >= 1
CeilDiv(a, b) == (a + b - 1) \div b

\* the pagination and the return statement of search
PageOf(results, engine, query, options, totalCount, startIndex) ==
    [result |->
       [entries |-> Slice(results.val, startIndex,
                          Min(startIndex + options.pageSize, totalCount)),
        pagination |-> [currentPage |-> options.page,
                        totalPages |-> CeilDiv(totalCount, options.pageSize),
                        totalCount |-> totalCount,
                        pageSize |-> options.pageSize,
                        hasNextPage |-> options.page < CeilDiv(totalCount, options.pageSize),
                        hasPreviousPage |-> options.page > 1],
        searchMeta |-> [query |-> query,
                        searchTime |-> engine.lastIndexTime,
                        resultsFound |-> totalCount],
        built |-> engine.built],
     entries |-> IF results.own THEN results.val ELSE engine.entries]

\* searchIndices.map(index => this.entries[index])
EntriesAt(entries, searchIndices) ==
    [k \in 1..Len(searchIndices) |-> entries[searchIndices[k] + 1]]

\* the candidates of search: the engine's own entries array, or the entries
\* the text search found
Candidates(engine, query) ==
    IF query # <<>> /\ Trim(query) # <<>>
    THEN [own |-> FALSE,
          val |-> EntriesAt(engine.entries, performTextSearch(engine, Trim(query)))]
    ELSE [own |-> TRUE, val |-> engine.entries]

\* A faulty pagination: pages are counted from 0
PaginateFromZero(results, engine, query, options) ==
    PageOf(results, engine, query, options, Len(results.val),
           options.page * options.pageSize)

\* A faulty pagination: a page beyond the last one shows the last one
PaginateClampLast(results, engine, query, options) ==
    PageOf(results, engine, query, options, Len(results.val),
           (Min(options.page, CeilDiv(Len(results.val), options.pageSize)) - 1)
              * options.pageSize)

Paginate(results, engine, query, options) ==
    PageOf(results, engine, query, options, Len(results.val),
           (options.page - 1) * options.pageSize)

\* search(query, options): the result object, and the engine's entries array
\* after the call
search(engine, query, options) ==
    Paginate(sortResults(applyFilters(Candidates(engine, query),
                                      [level |-> options.level,
                                       startDate |-> options.startDate,
                                       endDate |-> options.endDate]),
                         options.sortBy, options.sortOrder),
             engine, query, options)

(***************************************************************************)
(* The file system the scanner and the reader see: a sequence of           *)
(* directories, each with the entries readdir lists in order.  A directory *)
(* that is not readable fails readdir; an entry with statOk or readOk      *)
(* FALSE fails stat or readFile.                                           *)
(***************************************************************************)
\* path.join(dirPath, name)
PathJoin(dirPath, name) == dirPath \o <<"/">> \o name

FsHasDir(fs, dirPath) == \E d \in 1..Len(fs) : fs[d].path = dirPath /\ fs[d].readable
FsDir(fs, dirPath) == fs[CHOOSE d \in 1..Len(fs) : fs[d].path = dirPath]

FsFiles(fs) ==
    UNION {{[path |-> PathJoin(fs[d].path, fs[d].entries[e].name),
             ent |-> fs[d].entries[e]] : e \in 1..Len(fs[d].entries)} : d \in 1..Len(fs)}
FsHasFile(fs, filePath) == \E f \in {g \in FsFiles(fs) : g.ent.isFile} : f.path = filePath
FsFile(fs, filePath) == (CHOOSE f \in FsFiles(fs) : f.path = filePath).ent

(***************************************************************************)
(* Directory scanner and file reader (lib/fileReader.js).                  *)
(***************************************************************************)
\* A faulty isLogFile: every file name is taken
isLogFileAny(filename) == TRUE

\* /^(debug|error)(\d+)?\.log$/.test(filename)
isLogFile(filename) ==
    /\ \/ StartsWith(filename, <<"d","e","b","u","g">>)
       \/ StartsWith(filename, <<"e","r","r","o","r">>)
    /\ SkipDigits(SubSeq(filename, 6, Len(filename))) = <<".","l","o","g">>

extractLogLevel(filename) ==
    IF StartsWith(filename, <<"d","e","b","u","g">>)
    THEN <<"d","e","b","u","g">> ELSE <<"e","r","r","o","r">>

\* allFiles.sort((a, b) => b.lastModified - a.lastModified), a stable sort
InsertFile(sorted, x) ==
    InsertAt(sorted, x,
             LeastOr({p \in 1..Len(sorted) : x.lastModified - sorted[p].lastModified > 0},
                     Len(sorted) + 1))

RECURSIVE SortFiles(_, _)
SortFiles(sorted, rest) ==
    IF rest = <<>> THEN sorted ELSE SortFiles(InsertFile(sorted, Head(rest)), Tail(rest))

(***************************************************************************)
(* loadLogs (routes/api.js) as the state of one invocation between its     *)
(* awaits: pc names the file-system call it is waiting for.                *)
(*   readdir   scanSingleDirectory awaits readdir of logPaths[dirIdx]      *)
(*   stat      scanSingleDirectory awaits stat of listing[entIdx]          *)
(*   readFile  loadLogs awaits readLogFile of files[fileIdx]               *)
(*   loaded    every file is read: indexEntries comes next, synchronously  *)
(* warned lists the directories logger.warn was called for.               *)
(***************************************************************************)
\* config.logPaths
logPaths == << <<"/","a">>, <<"/","b">> >>

\* the loop of loadLogs over the scanned files: await the next file, or done
NextFile(ld) ==
    IF ld.fileIdx < Len(ld.files)
    THEN [ld EXCEPT !.pc = "readFile", !.fileIdx = ld.fileIdx + 1]
    ELSE [ld EXCEPT !.pc = "loaded", !.fileIdx = 0, !.files = <<>>]

\* the loop of scanLogDirectories: await the next directory, or sort and return
NextDir(ld) ==
    IF ld.dirIdx < Len(logPaths)
    THEN [ld EXCEPT !.pc = "readdir", !.dirIdx = ld.dirIdx + 1,
                    !.listing = <<>>, !.entIdx = 0, !.logFiles = <<>>]
    ELSE NextFile([ld EXCEPT !.dirIdx = 0, !.listing = <<>>, !.entIdx = 0,
                             !.logFiles = <<>>, !.allFiles = <<>>,
                             !.files = SortFiles(<<>>, ld.allFiles), !.fileIdx = 0])

\* the loop of scanSingleDirectory over the listing, from entry k on: await the
\* stat of the next regular file with a log file name, or return logFiles
RECURSIVE ScanEntries(_, _)
ScanEntries(ld, k) ==
    IF k > Len(ld.listing)
    THEN NextDir([ld EXCEPT !.allFiles = ld.allFiles \o ld.logFiles])
    ELSE IF ld.listing[k].isFile /\ isLogFile(ld.listing[k].name)
    THEN [ld EXCEPT !.pc = "stat", !.entIdx = k]
    ELSE ScanEntries(ld, k + 1)

\* loadLogs up to its first await
LoadStart ==
    [pc |-> "readdir", dirIdx |-> 1, listing |-> <<>>, entIdx |-> 0, logFiles |-> <<>>,
     allFiles |-> <<>>, files |-> <<>>, fileIdx |-> 0, allEntries |-> <<>>,
     warned |-> <<>>]

NotLoading ==
    [pc |-> "none", dirIdx |-> 0, listing |-> <<>>, entIdx |-> 0, logFiles |-> <<>>,
     allFiles |-> <<>>, files |-> <<>>, fileIdx |-> 0, allEntries |-> <<>>,
     warned |-> <<>>]

\* A faulty ReaddirDone: a directory that cannot be listed ends the scan
ReaddirDoneAbort(ld, fs) ==
    LET dirPath == logPaths[ld.dirIdx]
    IN  IF ~FsHasDir(fs, dirPath) THEN [NotLoading EXCEPT !.pc = "loaded"]
        ELSE ScanEntries([ld EXCEPT !.listing = FsDir(fs, dirPath).entries], 1)

\* readdir answers: a failure is rethrown by scanSingleDirectory and caught by
\* scanLogDirectories, which warns and goes on with the next directory
ReaddirDone(ld, fs) ==
    LET dirPath == logPaths[ld.dirIdx]
    IN  IF ~FsHasDir(fs, dirPath) THEN NextDir([ld EXCEPT !.warned = Append(@, dirPath)])
        ELSE ScanEntries([ld EXCEPT !.listing = FsDir(fs, dirPath).entries], 1)

\* stat answers: a failure leaves scanSingleDirectory through its catch block,
\* and the files of this directory found so far are lost with it
StatDone(ld, fs) ==
    LET dirPath == logPaths[ld.dirIdx]
        name == ld.listing[ld.entIdx].name
        filePath == PathJoin(dirPath, name)
    IN  IF ~FsHasFile(fs, filePath) \/ ~FsFile(fs, filePath).statOk
        THEN NextDir([ld EXCEPT !.warned = Append(@, dirPath)])
        ELSE ScanEntries(
               [ld EXCEPT !.logFiles = Append(ld.logFiles,
                   [name |-> name, path |-> filePath,
                    size |-> Len(FsFile(fs, filePath).content),
                    lastModified |-> FsFile(fs, filePath).mtime,
                    level |-> extractLogLevel(name), directory |-> dirPath])],
               ld.entIdx + 1)

\* readLogFile answers: a failure is caught in loadLogs and the file skipped
ReadFileDone(ld, fs, now) ==
    LET file == ld.files[ld.fileIdx]
    IN  IF ~FsHasFile(fs, file.path) \/ ~FsFile(fs, file.path).readOk THEN NextFile(ld)
        ELSE NextFile([ld EXCEPT !.allEntries =
                 ld.allEntries \o parseLogContent(FsFile(fs, file.path).content, file.path, now)])

\* the continuation of loadLogs when the file-system call it awaits answers
LoadStep(ld, fs, now) ==
    CASE ld.pc = "readdir" -> ReaddirDone(ld, fs)
      [] ld.pc = "stat" -> StatDone(ld, fs)
      [] ld.pc = "readFile" -> ReadFileDone(ld, fs, now)

\* loadLogs run from ld without another request in between
RECURSIVE LoadAll(_, _, _)
LoadAll(ld, fs, now) == IF ld.pc = "loaded" THEN ld ELSE LoadAll(LoadStep(ld, fs, now), fs, now)

(***************************************************************************)
(* API router (routes/api.js): the handlers' synchronous segments.         *)
(***************************************************************************)
\* req.query of GET /logs after parseInt of page and pageSize, with the
\* defaults of the handler; a date is the time new Date(string) denotes
DefaultQuery ==
    [q |-> <<>>, level |-> None, startDate |-> None, endDate |-> None,
     sourceFile |-> None, page |-> 1,
     pageSize |-> DefaultPageSize,
     sortBy |-> "timestamp", sortOrder |-> "desc", id |-> <<>>]

\* A faulty ensureLogsLoaded: it never loads
ensureLogsLoadedNever(scanTime) == FALSE

\* A faulty ensureLogsLoaded: it loads on every request
ensureLogsLoadedAlways(scanTime) == TRUE

\* ensureLogsLoaded: whether loadLogs is called
ensureLogsLoaded(scanTime) == scanTime = None

\* getIndexStats (its per-level and per-file counts left out)
getIndexStats(eng) ==
    [totalEntries |-> Len(eng.entries),
     totalTerms |-> Len(eng.indexedTerms),
     lastIndexTime |-> eng.lastIndexTime]

\* searchEngine.entries.find(e => e.id === entryId): the first such entry
FindEntry(eng, entryId) ==
    LET hits == {i \in 1..Len(eng.entries) : eng.entries[i].id = entryId}
    IN  IF hits = {} THEN None
        ELSE Some(eng.entries[CHOOSE i \in hits : \A o \in hits : i <= o])

\* res.json of GET /logs for the search result s
LogsResponse(s, scanTime) ==
    [resp |-> [success |-> TRUE, status |-> 200, data |-> s.result,
               lastScanTime |-> scanTime, built |-> s.result.built],
     entries |-> s.entries]

\* res.json or res.status(404) of GET /entry/:id for what find returned
EntryResponse(entry, eng, scanTime) ==
    [resp |-> [success |-> entry # None,
               status |-> IF entry # None THEN 200 ELSE 404,
               data |-> entry, lastScanTime |-> scanTime, built |-> eng.built],
     entries |-> eng.entries]

\* res.json of GET /stats and of POST /refresh
StatsResponse(eng, scanTime) ==
    [resp |-> [success |-> TRUE, status |-> 200, data |-> getIndexStats(eng),
               lastScanTime |-> scanTime, built |-> eng.built],
     entries |-> eng.entries]

\* the options GET /logs passes on to search
SearchOptions(query) ==
    [level |-> query.level, startDate |-> query.startDate, endDate |-> query.endDate,
     page |-> query.page, pageSize |-> query.pageSize, sortBy |-> query.sortBy,
     sortOrder |-> query.sortOrder]

\* What a handler does once the logs are loaded: its response, and the
\* engine's entries array afterwards.
Respond(kind, query, eng, scanTime) ==
    CASE kind = "logs" ->
           LogsResponse(search(eng, query.q, SearchOptions(query)), scanTime)
      [] kind = "entry" -> EntryResponse(FindEntry(eng, query.id), eng, scanTime)
      [] OTHER -> StatsResponse(eng, scanTime)

(***************************************************************************)
(* The state of the router and of its environment.                         *)
(***************************************************************************)
VARIABLES
    fs,            \* the file system
    fsChanges,     \* how often the file system has changed
    now,           \* the clock new Date() reads
    engine,        \* searchEngine
    lastScanTime,  \* lastScanTime
    indexCalls,    \* how many indexEntries calls there have been
    req,           \* the requests being handled, by slot
    arrivals,      \* how many requests have arrived
    result,        \* the outcome of the last operation run alone
    ui             \* the viewer in the browser: its data and its fetches in flight

vars == <<fs, fsChanges, now, engine, lastScanTime, indexCalls, req, arrivals, result, ui>>

(***************************************************************************)
(* Bounds, and the file systems and requests of the model.                 *)
(***************************************************************************)
NumSlots == 2        \* requests handled at the same time
MaxArrivals == 3     \* requests in one behaviour
MaxFsChanges == 1    \* changes of the file system in one behaviour
MaxNow == 7          \* the clock stops here
MaxBuilds == 2       \* rebuilds in one behaviour of requests handled alone
MaxPage == 3
MaxPageSize == 2
MaxLines == 2        \* lines of a file given to the parser alone
MaxDirEntries == 2   \* entries of a directory given to the scanner alone
MaxFetches == 3      \* searches and refreshes the viewer issues in one behaviour

Slots == 1..NumSlots

NL == <<"\n">>
ErrorLog == <<"e","r","r","o","r",".","l","o","g">>
DebugLog == <<"d","e","b","u","g","1",".","l","o","g">>
AppLog == <<"a","p","p",".","l","o","g">>

File(name, mtime, content) ==
    [name |-> name, isFile |-> TRUE, statOk |-> TRUE, readOk |-> TRUE,
     mtime |-> mtime, content |-> content]

\* error.log in both directories
FsBase ==
    << [path |-> logPaths[1], readable |-> TRUE,
        entries |-> << File(ErrorLog, 2, LineCab \o NL \o LineAb) >>],
       [path |-> logPaths[2], readable |-> TRUE,
        entries |-> << File(ErrorLog, 1, LineJsonWarn \o NL \o LineJsonErr) >>] >>

\* /a/error.log has grown by a blank line and a line
FsGrown ==
    << [path |-> logPaths[1], readable |-> TRUE,
        entries |-> << File(ErrorLog, 3,
                            LineCab \o NL \o LineAb \o NL \o LineBlank \o NL \o LineX) >>],
       [path |-> logPaths[2], readable |-> TRUE,
        entries |-> << File(ErrorLog, 1, LineJsonWarn \o NL \o LineJsonErr) >>] >>

\* other names, a directory with a log file name, and no second directory
FsMixed ==
    << [path |-> logPaths[1], readable |-> TRUE,
        entries |-> << File(AppLog, 5, LineAb),
                       File(DebugLog, 4, LineJsonNoLevel \o NL \o LineJsonErr),
                       [File(ErrorLog, 6, <<>>) EXCEPT !.isFile = FALSE] >>],
       [path |-> logPaths[2], readable |-> FALSE, entries |-> <<>>] >>

\* a file that cannot be read and a file that cannot be stat-ed
FsFaulty ==
    << [path |-> logPaths[1], readable |-> TRUE,
        entries |-> << [File(ErrorLog, 2, LineAb) EXCEPT !.readOk = FALSE],
                       File(DebugLog, 4, LineX) >>],
       [path |-> logPaths[2], readable |-> TRUE,
        entries |-> << File(DebugLog, 3, LineAb),
                       [File(ErrorLog, 1, LineCab) EXCEPT !.statOk = FALSE] >>] >>

\* /a/debug1.log has a line that mentions info; the files of /b carry records
\* with timestamps inside and beyond the range of Date
FsInfo ==
    << [path |-> logPaths[1], readable |-> TRUE,
        entries |-> << File(DebugLog, 1, LineInfo) >>],
       [path |-> logPaths[2], readable |-> TRUE,
        entries |-> << File(ErrorLog, 3, LineJsonWarn \o NL \o LineJsonFar),
                       File(DebugLog, 2, LineJsonErr) >>] >>

FsUniverse == {FsBase, FsGrown, FsMixed, FsFaulty, FsInfo}

\* what the file system may change to: log files grow, are rotated away, and
\* become unreadable
FsAfter(f) ==
    CASE f = FsBase -> {FsGrown}
      [] f = FsGrown -> {FsMixed}
      [] f = FsMixed -> {FsFaulty}
      [] f = FsFaulty -> {FsInfo}
      [] f = FsInfo -> {FsBase}

\* the data of the Vue application as created: nothing shown, no fetch in
\* flight, no timer set; issued counts the fetches and lastSearch is the
\* request of the search issued last
ViewerStart ==
    [loading |-> FALSE, searchQuery |-> <<>>, logEntries |-> <<>>,
     searchResults |-> [totalCount |-> 0, totalPages |-> 0],
     stats |-> [totalEntries |-> 0, lastIndexTime |-> None],
     currentPage |-> 1, pageSize |-> DefaultPageSize,
     sortField |-> "timestamp", sortOrder |-> "desc",
     searchDebounceTimer |-> FALSE,
     fetches |-> <<>>, issued |-> 0, lastSearch |-> None]

Idle == [kind |-> "idle", query |-> DefaultQuery, ld |-> NotLoading,
         resp |-> None, sawEmpty |-> FALSE, overlapped |-> FALSE]

ReadKinds == {"logs", "stats", "entry"}

\* the requests of the concurrent router
SlotQueries ==
    {DefaultQuery, [DefaultQuery EXCEPT !.q = LineAb]}

EntryIds == {ErrorLog \o <<":","1">>}

\* the requests handled alone
TextAbWarn == LineAb \o <<" ">> \o <<"w","a","r","n">>
Texts == {<<>>, LineAb, LineX, TextAbWarn}
Filters ==
    {[level |-> None, startDate |-> None, endDate |-> None, sourceFile |-> None],
     [level |-> <<"e","r","r","o","r">>, startDate |-> None, endDate |-> None,
      sourceFile |-> None],
     [level |-> None, startDate |-> Some(6), endDate |-> Some(7), sourceFile |-> None],
     [level |-> <<"e","r","r","o","r">>, startDate |-> Some(6), endDate |-> Some(6),
      sourceFile |-> None],
     [level |-> <<"i","n","f","o">>, startDate |-> None, endDate |-> None,
      sourceFile |-> None],
     [level |-> None, startDate |-> None, endDate |-> None, sourceFile |-> logPaths[2]]}
Pages == (-1)..MaxPage
PageSizes == (1..MaxPageSize) \cup {DefaultPageSize}
SortFields == {"timestamp", "level", "lineNumber", "bogus"}
SortOrders == {"asc", "desc"}

\* searches that vary the text, the filters and the sort, searches that vary
\* the text, the page and the sort order, and searches that vary the filters
\* and the page size
Queries ==
    {[DefaultQuery EXCEPT !.q = q, !.level = f.level, !.startDate = f.startDate,
                          !.endDate = f.endDate, !.sourceFile = f.sourceFile,
                          !.sortBy = sortBy, !.sortOrder = sortOrder] :
        q \in Texts, f \in Filters, sortBy \in SortFields, sortOrder \in SortOrders}
    \cup
    {[DefaultQuery EXCEPT !.q = q, !.page = page, !.pageSize = pageSize,
                          !.sortOrder = sortOrder] :
        q \in Texts, page \in Pages, pageSize \in PageSizes, sortOrder \in SortOrders}
    \cup
    {[DefaultQuery EXCEPT !.level = f.level, !.startDate = f.startDate,
                          !.endDate = f.endDate, !.sourceFile = f.sourceFile,
                          !.pageSize = pageSize] :
        f \in Filters, pageSize \in PageSizes}

(***************************************************************************)
(* The environment.                                                        *)
(***************************************************************************)
FsChange ==
    /\ fsChanges < MaxFsChanges
    /\ fs' \in FsAfter(fs)
    /\ fsChanges' = fsChanges + 1
    /\ UNCHANGED <<now, engine, lastScanTime, indexCalls, req, arrivals, result, ui>>

Tick ==
    /\ now < MaxNow
    /\ now' = now + 1
    /\ UNCHANGED <<fs, fsChanges, engine, lastScanTime, indexCalls, req, arrivals, result, ui>>

(***************************************************************************)
(* The router with requests in flight at the same time.                    *)
(***************************************************************************)
Loading(r) == req[r].ld.pc \in {"readdir", "stat", "readFile"}

\* the handler answers with out, the outcome of Respond
Reply(r, kind, query, eng, sawEmpty, out) ==
    /\ engine' = [eng EXCEPT !.entries = out.entries]
    /\ req' = [req EXCEPT ![r] =
                 [kind |-> kind, query |-> query, ld |-> NotLoading,
                  resp |-> Some(out.resp), sawEmpty |-> sawEmpty,
                  overlapped |-> \E o \in Slots \ {r} : Loading(o)]]

Answer(r, kind, query, eng, scanTime, sawEmpty) ==
    Reply(r, kind, query, eng, sawEmpty, Respond(kind, query, eng, scanTime))

\* a request arrives and its handler runs to its first await on the file system
Arrive(r) ==
    /\ req[r].kind = "idle"
    /\ \A o \in Slots : o < r => req[o].kind # "idle"
    /\ arrivals < MaxArrivals
    /\ arrivals' = arrivals + 1
    /\ \E kind \in ReadKinds \cup {"refresh"} :
       \E query \in (IF kind = "logs" THEN SlotQueries
                     ELSE IF kind = "entry" THEN {[DefaultQuery EXCEPT !.id = i] : i \in EntryIds}
                     ELSE {DefaultQuery}) :
          IF kind = "refresh" \/ ensureLogsLoaded(lastScanTime)
          THEN /\ req' = [req EXCEPT ![r] =
                            [kind |-> kind, query |-> query, ld |-> LoadStart,
                             resp |-> None, sawEmpty |-> lastScanTime = None,
                             overlapped |-> FALSE]]
               /\ UNCHANGED <<engine>>
          ELSE Answer(r, kind, query, engine, lastScanTime, lastScanTime = None)
    /\ UNCHANGED <<fs, fsChanges, now, lastScanTime, indexCalls, result, ui>>

\* loadLogs goes on from ld: to its next await, or, every file read, it
\* indexes the entries and sets lastScanTime, and the handler answers
Continue(r, ld) ==
    IF ld.pc # "loaded"
    THEN /\ req' = [req EXCEPT ![r].ld = ld]
         /\ UNCHANGED <<engine, lastScanTime, indexCalls>>
    ELSE /\ indexCalls' = indexCalls + 1
         /\ lastScanTime' = Some(now)
         /\ Answer(r, req[r].kind, req[r].query,
                   indexEntries(engine, ld.allEntries, now, indexCalls + 1),
                   Some(now), req[r].sawEmpty)

\* the file-system call a loadLogs awaits answers
Step(r) ==
    /\ Loading(r)
    /\ Continue(r, LoadStep(req[r].ld, fs, now))
    /\ UNCHANGED <<fs, fsChanges, now, arrivals, result, ui>>

\* the response is sent and the request is over
Complete(r) ==
    /\ req[r].resp # None
    /\ req' = [req EXCEPT ![r] = Idle]
    /\ UNCHANGED <<fs, fsChanges, now, engine, lastScanTime, indexCalls, arrivals, result, ui>>

Init ==
    /\ fs = FsBase
    /\ fsChanges = 0
    /\ now = 6
    /\ engine = NewEngine
    /\ lastScanTime = None
    /\ indexCalls = 0
    /\ req = [r \in Slots |-> Idle]
    /\ arrivals = 0
    /\ result = None
    /\ ui = ViewerStart

\* the event loop: a request arrives, an awaited file-system call answers, a
\* response is sent, or the files change; the requests in flight here all read
\* the same clock value
Next ==
    \/ \E r \in Slots : Arrive(r)
    \/ \E r \in Slots : Step(r)
    \/ \E r \in Slots : Complete(r)
    \/ FsChange

Spec == Init /\ [][Next]_vars

(***************************************************************************)
(* The router with one request at a time: each handler runs from the       *)
(* request to the response with no other request in between.               *)
(***************************************************************************)
\* the response is kept in result until it is sent
SeqReply(kind, query, eng, sawEmpty, out) ==
    /\ engine' = [eng EXCEPT !.entries = out.entries]
    /\ result' = Some([kind |-> kind, query |-> query, resp |-> out.resp,
                       sawEmpty |-> sawEmpty, before |-> eng])

SeqAnswer(kind, query, eng, scanTime, sawEmpty) ==
    SeqReply(kind, query, eng, sawEmpty, Respond(kind, query, eng, scanTime))

\* loadLogs from its first await to its end, then the handler's answer
SeqLoad(kind, query, ld) ==
    /\ indexCalls < MaxBuilds
    /\ indexCalls' = indexCalls + 1
    /\ lastScanTime' = Some(now)
    /\ SeqAnswer(kind, query, indexEntries(engine, ld.allEntries, now, indexCalls + 1),
                 Some(now), lastScanTime = None)

\* POST /refresh
SeqRefresh ==
    /\ result = None
    /\ SeqLoad("refresh", DefaultQuery, LoadAll(LoadStart, fs, now))
    /\ UNCHANGED <<fs, fsChanges, now, req, arrivals, ui>>

\* a handler that begins with await ensureLogsLoaded()
SeqRead(kind, query) ==
    /\ result = None
    /\ IF ensureLogsLoaded(lastScanTime)
       THEN SeqLoad(kind, query, LoadAll(LoadStart, fs, now))
       ELSE /\ SeqAnswer(kind, query, engine, lastScanTime, FALSE)
            /\ UNCHANGED <<lastScanTime, indexCalls>>
    /\ UNCHANGED <<fs, fsChanges, now, req, arrivals, ui>>

\* GET /logs
SeqLogs == \E query \in Queries : SeqRead("logs", query)

\* GET /stats
SeqStats == SeqRead("stats", DefaultQuery)

\* GET /entry/:id
SeqEntry == \E i \in EntryIds : SeqRead("entry", [DefaultQuery EXCEPT !.id = i])

\* the response is sent
SeqSend ==
    /\ result # None
    /\ result' = None
    /\ UNCHANGED <<fs, fsChanges, now, engine, lastScanTime, indexCalls, req, arrivals, ui>>

InitSeq ==
    /\ fs \in FsUniverse
    /\ fsChanges = 0
    /\ now = 6
    /\ engine = NewEngine
    /\ lastScanTime = None
    /\ indexCalls = 0
    /\ req = [r \in Slots |-> Idle]
    /\ arrivals = 0
    /\ result = None
    /\ ui = ViewerStart

NextSeq ==
    \/ SeqRefresh
    \/ SeqLogs
    \/ SeqStats
    \/ SeqEntry
    \/ SeqSend
    \/ FsChange
    \/ Tick

SpecSeq == InitSeq /\ [][NextSeq]_vars

(***************************************************************************)
(* Properties of the router with requests in flight at the same time.      *)
(***************************************************************************)
Answered(r) == req[r].resp # None

\* C1: under every interleaving of requests, the engine's entry sequence, term
\* index and build time were written by the same indexEntries call, the term
\* index is the index of exactly that entry sequence, and the three parts a
\* search read for its response come from one indexEntries call.
OneSnapshotPerSearch ==
    /\ engine.built.indexedTerms = engine.built.entries
    /\ engine.built.lastIndexTime = engine.built.entries
    /\ engine.indexedTerms = IndexAll(<<>>, engine.entries, 0)
    /\ \A r \in Slots :
          Answered(r) =>
             /\ req[r].resp[1].built.indexedTerms = req[r].resp[1].built.entries
             /\ req[r].resp[1].built.lastIndexTime = req[r].resp[1].built.entries

\* a search that waited for its own first load while a refresh published a
\* snapshot, and then answered from the second snapshot
SearchAfterTwoBuilds ==
    \E r \in Slots :
       /\ req[r].kind = "logs"
       /\ Answered(r)
       /\ req[r].sawEmpty
       /\ req[r].resp[1].built.entries = 2

\* C2: at most one loadLogs is between its first await and its end.
AtMostOneRebuild == Cardinality({r \in Slots : Loading(r)}) <= 1

\* a query, stats or entry request arrives in slot r after a build
ArrivesBuilt(r) ==
    /\ lastScanTime # None
    /\ req[r].kind = "idle"
    /\ req'[r].kind \in ReadKinds

\* C3: a query, stats or entry request that arrives once a snapshot is published
\* is answered in the step it arrives in, from the snapshot published at that
\* moment, whether or not a loadLogs is in progress; and that step leaves every
\* loadLogs in progress where it was, waiting only for its own file-system call.
QueryAndRefreshDoNotWait ==
    [][\A r \in Slots :
         ArrivesBuilt(r) =>
            /\ req'[r].resp # None
            /\ req'[r].resp[1].built = engine.built
            /\ req'[r].resp[1].lastScanTime = lastScanTime
            /\ engine' = engine
            /\ \A o \in Slots \ {r} : req'[o] = req[o] /\ (Loading(o) => Loading(o)')]_vars

\* a search answered from the published snapshot while a refresh is loading
AnsweredDuringRefresh ==
    \E r \in Slots, o \in Slots :
       /\ req[r].kind = "logs"
       /\ Answered(r)
       /\ ~req[r].sawEmpty
       /\ req[r].overlapped
       /\ req[o].kind = "refresh"
       /\ Loading(o)

\* C4: every answer to a query, stats or entry request comes from an index
\* that an indexEntries call has built, also when the request arrived before
\* any build; and the only answer that is not a success is the 404 of an entry
\* lookup.
NeverAnsweredUnbuilt ==
    \A r \in Slots :
       (req[r].kind \in ReadKinds /\ Answered(r)) =>
          /\ req[r].resp[1].built.entries >= 1
          /\ req[r].resp[1].lastScanTime # None
          /\ \/ req[r].resp[1].success /\ req[r].resp[1].status = 200
             \/ req[r].kind = "entry" /\ req[r].resp[1].status = 404

\* a search that arrived before any build and has been answered
AnsweredAfterLazyBuild ==
    \E r \in Slots :
       /\ req[r].kind = "logs"
       /\ Answered(r)
       /\ req[r].sawEmpty
       /\ lastScanTime # None

(***************************************************************************)
(* Properties of the requests handled alone.                               *)
(***************************************************************************)
\* the response in result is that of a search
IsLogsResult == result # None /\ result[1].kind = "logs"

\* C5: the step that answers a request leaves the engine as the last
\* indexEntries call built it (entries and their order, term index, build
\* time), whatever the text, filter, sort and page of a search; and a query,
\* stats or entry request that arrives after a build changes neither the
\* engine nor lastScanTime and calls indexEntries not at all.
SearchLeavesSnapshot ==
    [][(result = None /\ result' # None) =>
          /\ engine' = result'[1].before
          /\ (lastScanTime # None /\ result'[1].kind \in ReadKinds) =>
                /\ engine' = engine
                /\ lastScanTime' = lastScanTime
                /\ indexCalls' = indexCalls]_vars

\* a search over all entries of a built index whose sort put them in another order
ReorderingSearchAnswered ==
    /\ IsLogsResult
    /\ ~result[1].sawEmpty
    /\ result[1].query.q = <<>>
    /\ Len(result[1].resp.data.entries) >= 2
    /\ Len(result[1].resp.data.entries) = Len(engine.entries)
    /\ result[1].resp.data.entries # engine.entries

\* C6: no two entries of the engine have the same id.
UniqueEntryIds ==
    \A i \in 1..Len(engine.entries), j \in 1..Len(engine.entries) :
       i # j => engine.entries[i].id # engine.entries[j].id

\* the position of an entry in the engine's entry sequence
SnapshotPosition(eng, entry) == CHOOSE i \in 1..Len(eng.entries) : eng.entries[i] = entry

\* C7: in the page a search returns, two entries whose sort keys compare equal
\* are in the order they have in the engine's entry sequence.
SortStableInSnapshotOrder ==
    IsLogsResult =>
       \A p \in 1..Len(result[1].resp.data.entries), q \in 1..Len(result[1].resp.data.entries) :
          (/\ p < q
           /\ Compare(result[1].resp.data.entries[p], result[1].resp.data.entries[q],
                      result[1].query.sortBy, result[1].query.sortOrder) = 0)
          => SnapshotPosition(result[1].before, result[1].resp.data.entries[p])
               < SnapshotPosition(result[1].before, result[1].resp.data.entries[q])

\* C8: a search with a sourceFile filter returns only entries whose sourceFile
\* contains it, and counts no more than the entries of the index that do.
SourceFileFilterApplied ==
    (IsLogsResult /\ result[1].query.sourceFile # None) =>
       /\ \A p \in 1..Len(result[1].resp.data.entries) :
             Includes(result[1].resp.data.entries[p].sourceFile, result[1].query.sourceFile)
       /\ result[1].resp.data.pagination.totalCount <=
             Cardinality({i \in 1..Len(result[1].before.entries) :
                            Includes(result[1].before.entries[i].sourceFile,
                                     result[1].query.sourceFile)})

\* C9: a search with a page below 1 reports currentPage 1 and returns the
\* entries the same search returns for page 1.
PageBelowOneClamped ==
    (IsLogsResult /\ result[1].query.page < 1) =>
       /\ result[1].resp.data.pagination.currentPage = 1
       /\ result[1].resp.data.entries =
             search(result[1].before, result[1].query.q,
                    SearchOptions([result[1].query EXCEPT !.page = 1])).result.entries

\* the fields of an entry
EntryFields ==
    {"id", "level", "message", "timestamp", "sourceFile", "lineNumber", "raw", "isStructured"}

\* C10: a search sorted by a field the entries do not have returns the entries
\* the same search returns when sorted by timestamp in the same direction.
UnknownSortFieldIsTimestamp ==
    (IsLogsResult /\ result[1].query.sortBy \notin EntryFields) =>
       result[1].resp.data.entries =
          search(result[1].before, result[1].query.q,
                 SearchOptions([result[1].query EXCEPT !.sortBy = "timestamp"])).result.entries

(***************************************************************************)
(* Properties of the text search.                                          *)
(***************************************************************************)
\* the tokens of an entry: of its lower-cased message, level, sourceFile and raw
TokensOf(entry) == Range(extractTerms(getSearchableText(entry)))

\* the tokens of a query text
QueryTokens(q) == Range(extractTerms(ToLowerCase(q)))

\* the positions (from 0) of the entries with a token that some query token
\* equals or is a substring of
TokenMatches(eng, q) ==
    {i \in 0..(Len(eng.entries) - 1) :
        \E qt \in QueryTokens(q), t \in TokensOf(eng.entries[i + 1]) : Includes(t, qt)}

Unfiltered(query) ==
    query.level = None /\ query.startDate = None /\ query.endDate = None

EveryWordContained ==
    (IsLogsResult /\ Cardinality(QueryTokens(result[1].query.q)) >= 2) =>
       \A p \in 1..Len(result[1].resp.data.entries) :
          \A word \in QueryTokens(result[1].query.q) :
             Includes(getSearchableText(result[1].resp.data.entries[p]), word)

(***************************************************************************)
(* Properties of the filters and of the pagination.                        *)
(***************************************************************************)
\* the positions of the candidates of a search that pass its filters: level
\* equal, timestamp at or after startDate and at or before endDate
PassingCandidates(eng, query) ==
    {k \in 1..Len(Candidates(eng, query.q).val) :
        /\ query.level = None \/ Candidates(eng, query.q).val[k].level = query.level
        /\ query.startDate = None \/
              (/\ Candidates(eng, query.q).val[k].timestamp # None
               /\ Candidates(eng, query.q).val[k].timestamp[1] >= query.startDate[1])
        /\ query.endDate = None \/
              (/\ Candidates(eng, query.q).val[k].timestamp # None
               /\ Candidates(eng, query.q).val[k].timestamp[1] <= query.endDate[1])}

\* C13: totalCount counts exactly the candidates of the text search that pass
\* every filter that is set, the date bounds included; filters that are not
\* set exclude nothing; and when no candidate passes, the answer is a success
\* with totalCount 0 and no entries.
FiltersCountPassingCandidates ==
    IsLogsResult =>
       /\ result[1].resp.data.pagination.totalCount
             = Cardinality(PassingCandidates(result[1].before, result[1].query))
       /\ Unfiltered(result[1].query) =>
             result[1].resp.data.pagination.totalCount
                = Len(Candidates(result[1].before, result[1].query.q).val)
       /\ PassingCandidates(result[1].before, result[1].query) = {} =>
             /\ result[1].resp.success
             /\ result[1].resp.data.entries = <<>>

\* the entries of page p of a search
PageEntries(eng, query, p) ==
    search(eng, query.q, SearchOptions([query EXCEPT !.page = p])).result.entries

\* the entries of pages p..totalPages of a search, one page after the other
RECURSIVE PagesFrom(_, _, _, _)
PagesFrom(eng, query, p, totalPages) ==
    IF p > totalPages THEN <<>>
    ELSE PageEntries(eng, query, p) \o PagesFrom(eng, query, p + 1, totalPages)

\* two sequences with the same elements, each as often in one as in the other
SameMultiset(a, b) ==
    /\ Len(a) = Len(b)
    /\ \A x \in Range(a) \cup Range(b) :
          Cardinality({i \in 1..Len(a) : a[i] = x}) = Cardinality({i \in 1..Len(b) : b[i] = x})

\* C14: for a search with empty text and no filters, totalCount is the number
\* of indexed entries and pages 1..totalPages together hold exactly the
\* indexed entries, each once.
EmptyQueryReturnsAllEntries ==
    (/\ IsLogsResult
     /\ result[1].query.q = <<>>
     /\ Unfiltered(result[1].query)
     /\ result[1].query.pageSize >= 1) =>
       /\ result[1].resp.data.pagination.totalCount = Len(result[1].before.entries)
       /\ SameMultiset(PagesFrom(result[1].before, result[1].query, 1,
                                 result[1].resp.data.pagination.totalPages),
                       result[1].before.entries)

\* an unfiltered search with empty text over an index of several pages
AllEntriesOverSeveralPages ==
    /\ IsLogsResult
    /\ result[1].query.q = <<>>
    /\ Unfiltered(result[1].query)
    /\ Len(result[1].before.entries) >= 3
    /\ result[1].resp.data.pagination.totalPages >= 2

\* C15: for every search with a page size of at least 1, the pages
\* 1..totalPages together hold totalCount entries, every page but the last
\* holds pageSize entries and the last one at least one, and totalPages is the
\* least number of pages of that size that hold totalCount entries.
PagesAddUpToTotalCount ==
    (IsLogsResult /\ result[1].query.pageSize >= 1) =>
       /\ Len(PagesFrom(result[1].before, result[1].query, 1,
                        result[1].resp.data.pagination.totalPages))
             = result[1].resp.data.pagination.totalCount
       /\ \A p \in 1..(result[1].resp.data.pagination.totalPages - 1) :
             Len(PageEntries(result[1].before, result[1].query, p)) = result[1].query.pageSize
       /\ result[1].resp.data.pagination.totalPages >= 1 =>
             Len(PageEntries(result[1].before, result[1].query,
                             result[1].resp.data.pagination.totalPages)) >= 1
       /\ result[1].resp.data.pagination.totalPages * result[1].query.pageSize
             >= result[1].resp.data.pagination.totalCount
       /\ (result[1].resp.data.pagination.totalPages - 1) * result[1].query.pageSize
             < result[1].resp.data.pagination.totalCount
       /\ result[1].resp.data.pagination.totalPages >= 0

\* a search with a text whose last page is not full
LastPageNotFull ==
    /\ IsLogsResult
    /\ result[1].query.q # <<>>
    /\ result[1].resp.data.pagination.totalPages >= 2
    /\ result[1].resp.data.pagination.totalCount % result[1].query.pageSize # 0

\* C16: a search for a page after the last one succeeds with no entries and
\* with the totalCount and totalPages that page 1 of the same search reports.
PageBeyondLastIsEmpty ==
    (/\ IsLogsResult
     /\ result[1].query.pageSize >= 1
     /\ result[1].query.page > result[1].resp.data.pagination.totalPages) =>
       /\ result[1].resp.success
       /\ result[1].resp.data.entries = <<>>
       /\ result[1].resp.data.pagination.totalCount =
             search(result[1].before, result[1].query.q,
                    SearchOptions([result[1].query EXCEPT !.page = 1])).result.pagination.totalCount
       /\ result[1].resp.data.pagination.totalPages =
             search(result[1].before, result[1].query.q,
                    SearchOptions([result[1].query EXCEPT !.page = 1])).result.pagination.totalPages
       /\ result[1].resp.data.pagination.totalCount
             = Cardinality(PassingCandidates(result[1].before, result[1].query))

\* a search for a page after the last page of a search that has entries
BeyondLastPageAnswered ==
    /\ IsLogsResult
    /\ result[1].resp.data.pagination.totalCount >= 1
    /\ result[1].query.page > result[1].resp.data.pagination.totalPages
    /\ result[1].resp.data.pagination.totalPages >= 1

(***************************************************************************)
(* The parser alone: parseLogContent applied to a file content and a path. *)
(***************************************************************************)
ParseLines ==
    {<<>>, LineBlank, LineAb, LineInfo, LineJsonWarn, LineJsonNoLevel, LineJsonZero,
     LineJsonNumLevel, LineJsonAnsi, LineJsonFar, LineJsonNull}

\* Array.prototype.join('\n')
RECURSIVE JoinLines(_)
JoinLines(lines) ==
    IF lines = <<>> THEN <<>>
    ELSE IF Len(lines) = 1 THEN lines[1]
    ELSE lines[1] \o NL \o JoinLines(Tail(lines))

\* the file contents of up to MaxLines lines
FileContents == {JoinLines(ls) : ls \in UNION {[1..n -> ParseLines] : n \in 0..MaxLines}}

\* the source paths: log file names in plain directories, a debug file in a
\* directory named error, another file name, and a name without a directory
ParsePaths ==
    {PathJoin(logPaths[1], ErrorLog),
     PathJoin(logPaths[1], <<"d","e","b","u","g",".","l","o","g">>),
     PathJoin(<<"/","e","r","r","o","r">>, <<"d","e","b","u","g",".","l","o","g">>),
     PathJoin(logPaths[1], AppLog),
     <<"d","e","b","u","g",".","l","o","g">>}

\* parseLogContent(fileContent, filePath)
ParseFile ==
    /\ result = None
    /\ \E fileContent \in FileContents, filePath \in ParsePaths :
          result' = Some([kind |-> "parse", fileContent |-> fileContent,
                          filePath |-> filePath,
                          entries |-> parseLogContent(fileContent, filePath, now)])
    /\ UNCHANGED <<fs, fsChanges, now, engine, lastScanTime, indexCalls, req, arrivals, ui>>

InitParse == Init

NextParse ==
    \/ ParseFile
    \/ SeqSend

SpecParse == InitParse /\ [][NextParse]_vars

(***************************************************************************)
(* Properties of the parser.                                               *)
(***************************************************************************)
IsParseResult == result # None /\ result[1].kind = "parse"

\* the line is a JSON object that has the fields level, message and timestamp
HasAllFields(line) ==
    /\ JSONParse(line).t = "object"
    /\ JSONParse(line).level.t # "undefined"
    /\ JSONParse(line).message.t # "undefined"
    /\ JSONParse(line).timestamp.t # "undefined"

\* C17: every line that is a JSON object with the fields level, message and
\* timestamp, whatever their values, becomes an entry with isStructured TRUE;
\* and when its message is a string, the entry's message is that string with
\* the ANSI sequences removed and the white space trimmed.
JsonWithFieldsIsStructured ==
    IsParseResult =>
       \A k \in 1..Len(result[1].entries) :
          HasAllFields(result[1].entries[k].raw) =>
             /\ result[1].entries[k].isStructured
             /\ JSONParse(result[1].entries[k].raw).message.t = "string" =>
                   result[1].entries[k].message
                      = Trim(StripAnsi(JSONParse(result[1].entries[k].raw).message.v))

\* the name of the source file: the path after its last '/'
FileName(filePath) == Last(SplitChar(filePath, "/"))

\* C18: for every fallback entry the level is decided by the name of the
\* source file before the content of the line, whatever directory the file
\* lies in: a name containing error gives level error, and otherwise a name
\* containing debug (debug.log) gives level debug.
FallbackLevelFromFileName ==
    IsParseResult =>
       \A k \in 1..Len(result[1].entries) :
          ~result[1].entries[k].isStructured =>
             /\ Includes(FileName(result[1].filePath), <<"e","r","r","o","r">>) =>
                   result[1].entries[k].level = <<"e","r","r","o","r">>
             /\ /\ ~Includes(FileName(result[1].filePath), <<"e","r","r","o","r">>)
                /\ Includes(FileName(result[1].filePath), <<"d","e","b","u","g">>)
                => result[1].entries[k].level = <<"d","e","b","u","g">>

\* the lines of a file content that are not empty or white space only
NonBlankLines(fileContent) == SelectSeq(SplitChar(fileContent, "\n"), IsNonBlank)

\* the line is not a structured record: not JSON, not a JSON object, or an
\* object with a missing field or a level or message that is not a string
NotStructuredRecord(line) ==
    \/ JSONParse(line).t # "object"
    \/ JSONParse(line).level.t # "string"
    \/ JSONParse(line).message.t # "string"
    \/ JSONParse(line).timestamp.t = "undefined"

\* C19: parseLogContent returns one entry per non-blank line, in line order,
\* the k-th with lineNumber k and with a level, a message and a timestamp
\* that are not null; a line that is not a structured record gives a fallback
\* entry (isStructured FALSE).
OneEntryPerNonBlankLine ==
    IsParseResult =>
       /\ Len(result[1].entries) = Len(NonBlankLines(result[1].fileContent))
       /\ \A k \in 1..Len(result[1].entries) :
             /\ result[1].entries[k].raw = NonBlankLines(result[1].fileContent)[k]
             /\ result[1].entries[k].lineNumber = k
             /\ result[1].entries[k].timestamp # None
             /\ NotStructuredRecord(result[1].entries[k].raw) =>
                   ~result[1].entries[k].isStructured

(***************************************************************************)
(* Failures of single files during a rebuild.                              *)
(***************************************************************************)
\* the paths of the log files that can be stat-ed and read and have a line to
\* parse, in the directories that can be listed
IntactFiles(files) ==
    UNION {{PathJoin(files[d].path, files[d].entries[e].name) :
              e \in {i \in 1..Len(files[d].entries) :
                       /\ files[d].entries[i].isFile
                       /\ isLogFile(files[d].entries[i].name)
                       /\ files[d].entries[i].statOk
                       /\ files[d].entries[i].readOk
                       /\ NonBlankLines(files[d].entries[i].content) # <<>>}} :
           d \in {j \in 1..Len(files) : files[j].readable}}

\* C20: a failure on one file is confined to that file: after a rebuild,
\* every log file that can itself be stat-ed and read has its entries in the
\* index, whatever happened to the other files of its directory.
FailedFileAloneSkipped ==
    [][indexCalls' = indexCalls + 1 =>
          \A filePath \in IntactFiles(fs) :
             \E k \in 1..Len(engine'.entries) : engine'.entries[k].sourceFile = filePath]_vars

(***************************************************************************)
(* The scanner alone: scanLogDirectories(config.logPaths) on a file system.*)
(***************************************************************************)
\* scanLogDirectories: loadLogs from its start until the scan has returned,
\* that is until loadLogs awaits the first file or has no file to read
RECURSIVE ScanAll(_, _)
ScanAll(ld, files) ==
    IF ld.pc \in {"readFile", "loaded"} THEN ld
    ELSE ScanAll(LoadStep(ld, files, 0), files)

\* what scanLogDirectories returns
scanLogDirectories(files) == ScanAll(LoadStart, files).files

\* the directories scanLogDirectories calls logger.warn for
ScanWarnings(files) == ScanAll(LoadStart, files).warned

\* the entries a directory may hold: log files of several ages, a file with
\* another name, a name in upper case, a subdirectory with the name of a log
\* file, and a log file that cannot be stat-ed
DirEntries ==
    {File(ErrorLog, 1, LineAb), File(ErrorLog, 2, LineAb), File(DebugLog, 2, LineAb),
     File(AppLog, 3, LineAb),
     File(<<"E","r","r","o","r",".","l","o","g">>, 3, LineAb),
     [File(<<"e","r","r","o","r","2",".","l","o","g">>, 3, <<>>) EXCEPT !.isFile = FALSE],
     [File(<<"d","e","b","u","g","3",".","l","o","g">>, 3, LineAb) EXCEPT !.statOk = FALSE]}

\* the listings of a directory: up to MaxDirEntries entries of different names
DirListings ==
    {ls \in UNION {[1..n -> DirEntries] : n \in 0..MaxDirEntries} :
        \A i, j \in 1..Len(ls) : ls[i].name = ls[j].name => i = j}

\* a configured directory: one that cannot be listed, or one with a listing
DirStates(dirPath) ==
    {[path |-> dirPath, readable |-> FALSE, entries |-> <<>>]}
       \cup {[path |-> dirPath, readable |-> TRUE, entries |-> ls] : ls \in DirListings}

\* the file systems the scanner is run on
ScanFs == {<<da, db>> : da \in DirStates(logPaths[1]), db \in DirStates(logPaths[2])}

\* await scanLogDirectories(config.logPaths)
ScanDirs ==
    /\ result = None
    /\ result' = Some([kind |-> "scan", files |-> scanLogDirectories(fs),
                        warned |-> ScanWarnings(fs)])
    /\ UNCHANGED <<fs, fsChanges, now, engine, lastScanTime, indexCalls, req, arrivals, ui>>

InitScan ==
    /\ fs \in ScanFs
    /\ fsChanges = 0
    /\ now = 6
    /\ engine = NewEngine
    /\ lastScanTime = None
    /\ indexCalls = 0
    /\ req = [r \in Slots |-> Idle]
    /\ arrivals = 0
    /\ result = None
    /\ ui = ViewerStart

NextScan ==
    \/ ScanDirs
    \/ SeqSend

SpecScan == InitScan /\ [][NextScan]_vars

(***************************************************************************)
(* Properties of the scanner.                                              *)
(***************************************************************************)
IsScanResult == result # None /\ result[1].kind = "scan"

\* the paths of the files a scan has returned
ScannedPaths == {result[1].files[k].path : k \in 1..Len(result[1].files)}

\* the directory can be listed and each of its log files can be stat-ed
ScannableDir(dir) ==
    /\ dir.readable
    /\ \A e \in 1..Len(dir.entries) :
          dir.entries[e].isFile /\ isLogFile(dir.entries[e].name) => dir.entries[e].statOk

\* C21: a configured directory that cannot be listed is skipped with a
\* warning to the logger and does not abort the scan: the log files of every
\* other configured directory, before and after it in the list, are returned.
UnreadableDirSkipped ==
    IsScanResult =>
       \A d \in 1..Len(fs) :
          /\ ~fs[d].readable =>
                \E w \in 1..Len(result[1].warned) : result[1].warned[w] = fs[d].path
          /\ ScannableDir(fs[d]) =>
                \A e \in 1..Len(fs[d].entries) :
                   fs[d].entries[e].isFile /\ isLogFile(fs[d].entries[e].name) =>
                      PathJoin(fs[d].path, fs[d].entries[e].name) \in ScannedPaths

\* C21 happens: the first directory cannot be listed and a scan has returned
\* the log files of the second one
FilesAfterUnreadableDir ==
    /\ IsScanResult
    /\ ~fs[1].readable
    /\ ScannableDir(fs[2])
    /\ result[1].files # <<>>

\* the name matches ^(debug|error)(\d+)?\.log$
MatchesLogPattern(name) ==
    \E prefix \in {<<"d","e","b","u","g">>, <<"e","r","r","o","r">>} :
       /\ Len(name) >= Len(prefix) + 4
       /\ SubSeq(name, 1, Len(prefix)) = prefix
       /\ SubSeq(name, Len(name) - 3, Len(name)) = <<".","l","o","g">>
       /\ \A i \in (Len(prefix) + 1)..(Len(name) - 4) : IsDigit(name[i])

\* the paths of the regular files with a log file name that lie directly in
\* the configured directories that can be listed, and whose modification
\* time can be read
LogFilePaths(files) ==
    UNION {{PathJoin(files[d].path, files[d].entries[e].name) :
              e \in {i \in 1..Len(files[d].entries) :
                       /\ files[d].entries[i].isFile
                       /\ MatchesLogPattern(files[d].entries[i].name)
                       /\ files[d].entries[i].statOk}} :
           d \in {j \in 1..Len(files) : files[j].readable}}

\* C22: the scanner returns exactly the regular files lying directly in the
\* configured directories whose name matches ^(debug|error)(\d+)?\.log$, each
\* once, with level debug when the name starts with debug and error
\* otherwise, most recently modified first.
ScanReturnsExactlyLogFiles ==
    IsScanResult =>
       /\ ScannedPaths = LogFilePaths(fs)
       /\ Cardinality(ScannedPaths) = Len(result[1].files)
       /\ \A k \in 1..Len(result[1].files) :
             result[1].files[k].level =
                IF SubSeq(result[1].files[k].name, 1, 5) = <<"d","e","b","u","g">>
                THEN <<"d","e","b","u","g">> ELSE <<"e","r","r","o","r">>
       /\ \A k \in 1..(Len(result[1].files) - 1) :
             result[1].files[k].lastModified >= result[1].files[k + 1].lastModified

(***************************************************************************)
(* The term index and the entry sequence.                                  *)
(***************************************************************************)
\* the tokens of a text: its maximal runs of word characters, of length >= 2
\* (what lies between two neighbouring separators, the ends of the text included)
TextTokens(text) ==
    LET seps == {k \in 1..Len(text) : ~IsWordChar(text[k])} \cup {0, Len(text) + 1}
    IN  {SubSeq(text, p[1] + 1, p[2] - 1) : p \in
            {q \in seps \X seps :
                /\ q[2] - q[1] >= 3
                /\ \A k \in seps : ~(q[1] < k /\ k < q[2])}}

\* the tokens of the lower-cased message, level, sourceFile and raw text
EntryTokens(entry) ==
    TextTokens(ToLowerCase(entry.message)) \cup TextTokens(ToLowerCase(entry.level))
       \cup TextTokens(ToLowerCase(entry.sourceFile)) \cup TextTokens(ToLowerCase(entry.raw))

\* C23: the term index describes exactly the published entry sequence: each
\* term is kept once, and position i is in the set of term t if and only if
\* i is a position of the current entry sequence and t is a token of length
\* >= 2 of the lower-cased message, level, sourceFile and raw text of entry i.
IndexDescribesEntries ==
    /\ \A k, l \in 1..Len(engine.indexedTerms) :
          engine.indexedTerms[k].term = engine.indexedTerms[l].term => k = l
    /\ \A k \in 1..Len(engine.indexedTerms) :
          \A i \in Range(engine.indexedTerms[k].indices) :
             /\ i \in 0..(Len(engine.entries) - 1)
             /\ engine.indexedTerms[k].term \in EntryTokens(engine.entries[i + 1])
    /\ \A i \in 0..(Len(engine.entries) - 1) :
          \A t \in EntryTokens(engine.entries[i + 1]) :
             \E k \in 1..Len(engine.indexedTerms) :
                /\ engine.indexedTerms[k].term = t
                /\ i \in Range(engine.indexedTerms[k].indices)

\* C23 happens: a second build has replaced a first one made from other files
RebuiltFromChangedFiles ==
    /\ indexCalls >= 2
    /\ fsChanges > 0
    /\ engine.built.entries >= 2
    /\ engine.entries # <<>>

(***************************************************************************)
(* Overlapping rebuilds.                                                   *)
(***************************************************************************)
\* the entries a loadLogs gives that reads every file as it is now
FreshEntries == LoadAll(LoadStart, fs, now).allEntries

\* C24: a rebuild that read the files earlier never replaces a snapshot built
\* from a later read: when the published snapshot holds the entries of the
\* files as they are now, a rebuild that finishes publishes these entries too.
StaleRebuildNeverPublished ==
    [][(/\ indexCalls' = indexCalls + 1
        /\ lastScanTime # None
        /\ fs' = fs
        /\ engine.entries = FreshEntries)
       => engine'.entries = FreshEntries]_vars

(***************************************************************************)
(* Query texts without a token.                                            *)
(***************************************************************************)
\* the data of the response to the last search had its text been empty
EmptyTextData ==
    Respond("logs", [result[1].query EXCEPT !.q = <<>>], result[1].before,
            lastScanTime).resp.data

\* C25: a non-blank query text without a token of length >= 2 makes every
\* entry of the snapshot a candidate, exactly like an empty query: the page
\* and the totals are those of the same search with an empty text.
NoTokenQueryMatchesAll ==
    (/\ IsLogsResult
     /\ Trim(result[1].query.q) # <<>>
     /\ TextTokens(ToLowerCase(result[1].query.q)) = {}) =>
       /\ result[1].resp.data.entries = EmptyTextData.entries
       /\ result[1].resp.data.pagination = EmptyTextData.pagination
       /\ Unfiltered(result[1].query) /\ result[1].query.sourceFile = None =>
             result[1].resp.data.pagination.totalCount = Len(result[1].before.entries)

\* C25 happens: a search for one character has returned every entry
OneCharacterQueryAnswered ==
    /\ IsLogsResult
    /\ result[1].query.q = LineX
    /\ Len(result[1].before.entries) >= 2
    /\ result[1].resp.data.pagination.totalCount = Len(result[1].before.entries)

(***************************************************************************)
(* The levels of fallback entries in a snapshot.                           *)
(***************************************************************************)
\* C26: in a snapshot built by loadLogs every fallback entry has level error
\* or debug, whatever its line mentions: the scanned files have names that
\* begin with debug or error, so the level is taken from the source path.
FallbackLevelsErrorOrDebug ==
    \A k \in 1..Len(engine.entries) :
       ~engine.entries[k].isStructured =>
          engine.entries[k].level \in {<<"e","r","r","o","r">>, <<"d","e","b","u","g">>}

\* C26 happens: the snapshot holds the fallback entry of a line that mentions
\* info, with level debug
InfoLineIndexedAsDebug ==
    \E k \in 1..Len(engine.entries) :
       /\ ~engine.entries[k].isStructured
       /\ engine.entries[k].raw = LineInfo
       /\ engine.entries[k].level = <<"d","e","b","u","g">>

(***************************************************************************)
(* The order of the pages.                                                 *)
(***************************************************************************)
\* entry a may stand before entry b when sorting by the field in ascending
\* order: timestamps chronologically, strings by localeCompare, numbers
\* numerically
InOrder(a, b, sortBy) ==
    CASE sortBy = "timestamp" ->
           (a.timestamp # None /\ b.timestamp # None) => a.timestamp[1] <= b.timestamp[1]
      [] sortBy = "lineNumber" -> a.lineNumber <= b.lineNumber
      [] sortBy = "level" -> LocaleCompare(a.level, b.level) <= 0
      [] OTHER -> TRUE

\* pages 1..totalPages of the last search, one after the other
AllPages ==
    PagesFrom(result[1].before, result[1].query, 1,
              result[1].resp.data.pagination.totalPages)

\* C27: pages 1..totalPages of one search against one snapshot, one after the
\* other, are ordered by the sort field: non-decreasing for asc and
\* non-increasing for desc.
PagesOrderedBySortField ==
    (IsLogsResult /\ result[1].query.pageSize >= 1) =>
       \A i, j \in 1..Len(AllPages) :
          i < j =>
             IF result[1].query.sortOrder = "desc"
             THEN InOrder(AllPages[j], AllPages[i], result[1].query.sortBy)
             ELSE InOrder(AllPages[i], AllPages[j], result[1].query.sortBy)

(***************************************************************************)
(* The viewer (the Vue application of index.js) against a server whose     *)
(* snapshot does not change: a fetch in flight is answered at any time,    *)
(* in any order.                                                           *)
(***************************************************************************)
\* the snapshot of the server
ViewerEngine == indexEntries(NewEngine, LoadAll(LoadStart, FsBase, 6).allEntries, 6, 1)

\* the body of the response to a fetch
ViewerResponse(fetch) ==
    Respond(fetch.kind, fetch.query, ViewerEngine, Some(6)).resp

\* performSearch(page) up to its await fetch(url)
performSearch(v, page, inRefresh) ==
    LET query == [DefaultQuery EXCEPT !.q = v.searchQuery, !.page = page,
                                      !.pageSize = v.pageSize, !.sortBy = v.sortField,
                                      !.sortOrder = v.sortOrder]
    IN  [v EXCEPT !.loading = TRUE, !.currentPage = page,
                  !.fetches = Append(@, [kind |-> "logs", query |-> query,
                                         inRefresh |-> inRefresh]),
                  !.issued = @ + 1, !.lastSearch = Some(query)]

\* the computed property totalPages
totalPages(v) == IF v.searchResults.totalPages = 0 THEN 1 ELSE v.searchResults.totalPages

\* the user types in the search box: v-model and debouncedSearch
ViewerInput ==
    /\ \E q \in {<<>>, LineAb} :
          /\ q # ui.searchQuery
          /\ ui' = [ui EXCEPT !.searchQuery = q, !.searchDebounceTimer = TRUE]
    /\ UNCHANGED <<fs, fsChanges, now, engine, lastScanTime, indexCalls, req, arrivals, result>>

\* the timer of debouncedSearch fires
ViewerTimeout ==
    /\ ui.searchDebounceTimer
    /\ ui.issued < MaxFetches
    /\ ui' = performSearch([ui EXCEPT !.searchDebounceTimer = FALSE], 1, FALSE)
    /\ UNCHANGED <<fs, fsChanges, now, engine, lastScanTime, indexCalls, req, arrivals, result>>

\* sortBy(field)
ViewerSortBy ==
    /\ ui.issued < MaxFetches
    /\ \E field \in {"timestamp", "level"} :
          ui' = performSearch(
                   IF ui.sortField = field
                   THEN [ui EXCEPT !.sortOrder = IF @ = "desc" THEN "asc" ELSE "desc"]
                   ELSE [ui EXCEPT !.sortField = field, !.sortOrder = "desc"],
                   ui.currentPage, FALSE)
    /\ UNCHANGED <<fs, fsChanges, now, engine, lastScanTime, indexCalls, req, arrivals, result>>

\* goToPage(page)
ViewerGoToPage ==
    /\ ui.issued < MaxFetches
    /\ \E page \in 1..MaxPage :
          /\ page >= 1 /\ page <= totalPages(ui)
          /\ ui' = performSearch(ui, page, FALSE)
    /\ UNCHANGED <<fs, fsChanges, now, engine, lastScanTime, indexCalls, req, arrivals, result>>

\* refreshLogs up to its await fetch
ViewerRefresh ==
    /\ ui.issued < MaxFetches
    /\ ui' = [ui EXCEPT !.loading = TRUE,
                        !.fetches = Append(@, [kind |-> "refresh", query |-> DefaultQuery,
                                               inRefresh |-> TRUE]),
                        !.issued = @ + 1]
    /\ UNCHANGED <<fs, fsChanges, now, engine, lastScanTime, indexCalls, req, arrivals, result>>

\* the sequence without its i-th element
RemoveAt(seq, i) == SubSeq(seq, 1, i - 1) \o SubSeq(seq, i + 1, Len(seq))

\* the rest of performSearch once its fetch is answered: the data are shown
\* and loading is reset in the finally block (again in the one of refreshLogs
\* when the search was its own)
SearchAnswered(v, i) ==
    LET data == ViewerResponse(v.fetches[i])
    IN  [v EXCEPT !.logEntries = data.data.entries,
                  !.searchResults = [totalCount |-> data.data.pagination.totalCount,
                                     totalPages |-> data.data.pagination.totalPages],
                  !.currentPage = data.data.pagination.currentPage,
                  !.stats.lastIndexTime = data.lastScanTime,
                  !.loading = FALSE,
                  !.fetches = RemoveAt(@, i)]

\* the rest of refreshLogs once its fetch is answered, up to the await of
\* this.performSearch(1)
RefreshAnswered(v, i) ==
    LET data == ViewerResponse(v.fetches[i])
    IN  performSearch([v EXCEPT !.stats = [totalEntries |-> data.data.totalEntries,
                                           lastIndexTime |-> data.lastScanTime],
                                !.fetches = RemoveAt(@, i)],
                      1, TRUE)

\* a fetch in flight is answered
ViewerResponded ==
    /\ \E i \in 1..Len(ui.fetches) :
          ui' = IF ui.fetches[i].kind = "logs" THEN SearchAnswered(ui, i)
                ELSE RefreshAnswered(ui, i)
    /\ UNCHANGED <<fs, fsChanges, now, engine, lastScanTime, indexCalls, req, arrivals, result>>

InitViewer == Init

NextViewer ==
    \/ ViewerInput
    \/ ViewerTimeout
    \/ ViewerSortBy
    \/ ViewerGoToPage
    \/ ViewerRefresh
    \/ ViewerResponded

SpecViewer == InitViewer /\ [][NextViewer]_vars

\* C28: when several searches are in flight at once, after all responses have
\* arrived the displayed entries, totals and current page are those of the
\* most recently issued search, and the loading flag is false only when no
\* request is in flight.
ViewerShowsLatestSearch ==
    /\ (ui.fetches = <<>> /\ ui.lastSearch # None) =>
          /\ ui.logEntries
                = ViewerResponse([kind |-> "logs", query |-> ui.lastSearch[1]]).data.entries
          /\ ui.searchResults.totalCount
                = ViewerResponse([kind |-> "logs",
                                  query |-> ui.lastSearch[1]]).data.pagination.totalCount
          /\ ui.searchResults.totalPages
                = ViewerResponse([kind |-> "logs",
                                  query |-> ui.lastSearch[1]]).data.pagination.totalPages
          /\ ui.currentPage = ui.lastSearch[1].page
    /\ ~ui.loading => ui.fetches = <<>>

=============================================================================
